---------------------------- MODULE Spec2Model ----------------------------
(***************************************************************************)
(* CmdBell: correlation of Docker exec events, the HTTP report ingress,    *)
(* the local command runner and the notifier they all dispatch to.         *)
(*                                                                         *)
(* Strings the code inspects or builds (actions, duration strings,         *)
(* messages, names) are sequences of one-character strings.  Durations and *)
(* instants are integers counting milliseconds.                            *)
(***************************************************************************)
EXTENDS Integers, Sequences, FiniteSets, TLC

(***************************************************************************)
(* strings                                                                 *)
(***************************************************************************)
Digits == <<"0", "1", "2", "3", "4", "5", "6", "7", "8", "9">>

IsDigit(c) == \E i \in 1..10 : Digits[i] = c

DigitVal(c) == (CHOOSE i \in 1..10 : Digits[i] = c) - 1

\* strings.HasPrefix
HasPrefix(s, p) == Len(s) >= Len(p) /\ SubSeq(s, 1, Len(p)) = p

\* strings.Index: 0-based index of the first occurrence of p in s, -1 if none
Index(s, p) ==
    LET hits == {i \in 1..(Len(s) - Len(p) + 1) : SubSeq(s, i, i + Len(p) - 1) = p}
    IN  IF hits = {} THEN -1
        ELSE (CHOOSE i \in hits : \A j \in hits : i <= j) - 1

\* s[n:] for a 0-based n
From(s, n) == SubSeq(s, n + 1, Len(s))

IsSpace(c) == c \in {" ", "\n", "\t", "\r"}

\* strings.TrimSpace
RECURSIVE TrimLeft(_)
TrimLeft(s) == IF s # <<>> /\ IsSpace(Head(s)) THEN TrimLeft(Tail(s)) ELSE s

RECURSIVE TrimRight(_)
TrimRight(s) ==
    IF s # <<>> /\ IsSpace(s[Len(s)]) THEN TrimRight(SubSeq(s, 1, Len(s) - 1)) ELSE s

TrimSpace(s) == TrimRight(TrimLeft(s))

\* strings.TrimPrefix
TrimPrefix(s, p) == IF HasPrefix(s, p) THEN From(s, Len(p)) ELSE s

\* decimal rendering of a natural number (fmt's %d)
RECURSIVE Itoa(_)
Itoa(n) == IF n < 10 THEN <<Digits[n + 1]>> ELSE Itoa(n \div 10) \o <<Digits[(n % 10) + 1]>>

(***************************************************************************)
(* time.Duration, in milliseconds                                          *)
(***************************************************************************)
Millisecond == 1

Second == 1000

Minute == 60 * Second

Hour == 60 * Minute

\* The largest Duration: what time.Since yields for the zero time.Time,
\* whose distance from any present instant saturates.
maxDuration == 2147483647

\* the units of time.ParseDuration that the millisecond resolution can hold
unitMap(u) ==
    CASE u = <<"m", "s">> -> Millisecond
      [] u = <<"s">>      -> Second
      [] u = <<"m">>      -> Minute
      [] u = <<"h">>      -> Hour
      [] OTHER            -> 0

\* number of leading characters of s that satisfy the digit test
RECURSIVE LeadingDigits(_)
LeadingDigits(s) ==
    IF s # <<>> /\ IsDigit(Head(s)) THEN 1 + LeadingDigits(Tail(s)) ELSE 0

\* number of leading characters of s that belong to a unit name
RECURSIVE LeadingUnit(_)
LeadingUnit(s) ==
    IF s # <<>> /\ Head(s) # "." /\ ~IsDigit(Head(s)) THEN 1 + LeadingUnit(Tail(s)) ELSE 0

RECURSIVE DecValue(_)
DecValue(s) == IF s = <<>> THEN 0 ELSE 10 * DecValue(SubSeq(s, 1, Len(s) - 1)) + DigitVal(s[Len(s)])

RECURSIVE Pow10(_)
Pow10(n) == IF n = 0 THEN 1 ELSE 10 * Pow10(n - 1)

\* the loop of time.ParseDuration: one "<number>[.<fraction>]<unit>" term at
\* a time; d is the sum so far, the result is the sum or -1 for a syntax error
RECURSIVE parseTerms(_, _)
parseTerms(s, d) ==
    IF s = <<>> THEN d
    ELSE IF ~(Head(s) = "." \/ IsDigit(Head(s))) THEN -1
    ELSE
      LET np   == LeadingDigits(s)
          v    == DecValue(SubSeq(s, 1, np))
          s1   == From(s, np)
          dot  == s1 # <<>> /\ Head(s1) = "."
          s2   == IF dot THEN Tail(s1) ELSE s1
          nf   == IF dot THEN LeadingDigits(s2) ELSE 0
          f    == DecValue(SubSeq(s2, 1, nf))
          s3   == From(s2, nf)
          nu   == LeadingUnit(s3)
          unit == unitMap(SubSeq(s3, 1, nu))
      IN  IF np = 0 /\ nf = 0 THEN -1
          ELSE IF nu = 0 THEN -1
          ELSE IF unit = 0 THEN -1
          ELSE parseTerms(From(s3, nu), d + v * unit + ((f * unit) \div Pow10(nf)))

\* time.ParseDuration: the pair (duration, error)
ParseDuration(str) ==
    LET signed == str # <<>> /\ Head(str) \in {"-", "+"}
        neg    == str # <<>> /\ Head(str) = "-"
        s      == IF signed THEN Tail(str) ELSE str
    IN  IF s = <<"0">> THEN [d |-> 0, err |-> FALSE]
        ELSE IF s = <<>> THEN [d |-> 0, err |-> TRUE]
        ELSE LET d == parseTerms(s, 0)
             IN  IF d = -1 THEN [d |-> 0, err |-> TRUE]
                 ELSE [d |-> IF neg THEN 0 - d ELSE d, err |-> FALSE]

\* Duration.Round(time.Second): to the nearest second, halves away from zero
Round(d, m) ==
    IF d = maxDuration THEN maxDuration
    ELSE LET a == IF d < 0 THEN 0 - d ELSE d
             r == a % m
             q == IF r + r < m THEN a - r ELSE a + m - r
         IN  IF d < 0 THEN 0 - q ELSE q

\* Duration.String of a duration that is a whole number of seconds
DurationString(d) ==
    IF d = maxDuration
    THEN <<"2", "5", "6", "2", "0", "4", "7", "h", "4", "7", "m", "1", "6", ".",
           "8", "5", "4", "7", "7", "5", "8", "0", "7", "s">>
    ELSE LET a  == (IF d < 0 THEN 0 - d ELSE d) \div Second
             s  == a % 60
             m  == (a \div 60) % 60
             h  == a \div 3600
             hm == IF h > 0 THEN Itoa(h) \o <<"h">> \o Itoa(m) \o <<"m">>
                   ELSE IF m > 0 THEN Itoa(m) \o <<"m">>
                   ELSE <<>>
         IN  (IF d < 0 THEN <<"-">> ELSE <<>>) \o hm \o Itoa(s) \o <<"s">>

(***************************************************************************)
(* configuration (config.go)                                               *)
(***************************************************************************)
str30s == <<"3", "0", "s">>

strSoon == <<"s", "o", "o", "n">>

DefaultPort == 59721

getDefaultConfig ==
    [MinDuration     |-> <<"1", "5", "s">>,
     MinDurationTime |-> 15 * Second,
     EnableNotify    |-> TRUE,
     DockerMonitor   |-> TRUE,
     HTTPPort        |-> DefaultPort,
     HTTPEnabled     |-> TRUE]

\* a port a config file sets in place of the default one
AltPort == 8080

\* A YAML file as yaml.Unmarshal sees it: a key the file lacks leaves the
\* field at its zero value.
Yaml(minDuration, enableNotify) ==
    [MinDuration     |-> minDuration,
     MinDurationTime |-> 0,
     EnableNotify    |-> enableNotify,
     DockerMonitor   |-> TRUE,
     HTTPPort        |-> DefaultPort,
     HTTPEnabled     |-> TRUE]

\* The config files of the model; {} is "no file at the config path".
ConfigFiles ==
    { {},
      {[Yaml(str30s, TRUE) EXCEPT !.HTTPPort = AltPort]},
      {Yaml(<<>>, FALSE)},
      {Yaml(strSoon, TRUE)} }

\* LoadConfig: the pair (*Config, error); a nil pointer is the empty set
LoadConfig(file) ==
    IF file = {} THEN [cfg |-> {getDefaultConfig}, err |-> FALSE]
    ELSE LET config == CHOOSE c \in file : TRUE
         IN  IF config.MinDuration # <<>>
             THEN LET r == ParseDuration(config.MinDuration)
                  IN  IF r.err THEN [cfg |-> {}, err |-> TRUE]
                      ELSE [cfg |-> {[config EXCEPT !.MinDurationTime = r.d]}, err |-> FALSE]
             ELSE [cfg |-> {[config EXCEPT !.MinDurationTime = 15 * Second]}, err |-> FALSE]

\* The process-wide configuration pointer read by the Docker monitor: set
\* once at process start from LoadConfig and left nil when loading fails.
InitConfig(file) == LoadConfig(file).cfg

\* The configuration NewDaemon keeps: the loaded one, or the defaults when
\* loading fails.
NewDaemonConfig(file) ==
    LET r == LoadConfig(file)
    IN  IF r.err THEN getDefaultConfig ELSE CHOOSE c \in r.cfg : TRUE

(***************************************************************************)
(* notifier (notifier.go)                                                  *)
(***************************************************************************)
strCommandQ == <<"C", "o", "m", "m", "a", "n", "d", " ", "'">>

strQInQ == <<"'", " ", "i", "n", " ", "'">>

strQSp == <<"'", " ">>

strAfter == <<" ", "a", "f", "t", "e", "r", " ">>

strCompleted == <<"c", "o", "m", "p", "l", "e", "t", "e", "d">>

strFailed == <<"f", "a", "i", "l", "e", "d">>

titleContainer ==
    <<"C", "m", "d", "B", "e", "l", "l", " ", "-", " ",
      "C", "o", "n", "t", "a", "i", "n", "e", "r">>

\* the notifier that attempts the native alert first and prints afterwards
Dispatch_NativeFirst(title, message, icon, nativeErr) ==
    [lines  |-> <<[kind |-> "bell", title |-> title, message |-> message]>>
                \o (IF nativeErr THEN <<[kind |-> "native-failed"]>> ELSE <<>>),
     alerts |-> <<[title |-> title, message |-> message, icon |-> icon]>>,
     seq    |-> <<"native", "console">> \o (IF nativeErr THEN <<"console">> ELSE <<>>)]

\* What one notifier call writes: the console line, the native alert attempt
\* and, when that attempt fails (nativeErr), the console line reporting it;
\* seq lists these effects in the order the code makes them.
Dispatch(title, message, icon, nativeErr) ==
    [lines  |-> <<[kind |-> "bell", title |-> title, message |-> message]>>
                \o (IF nativeErr THEN <<[kind |-> "native-failed"]>> ELSE <<>>),
     alerts |-> <<[title |-> title, message |-> message, icon |-> icon]>>,
     seq    |-> <<"console", "native">> \o (IF nativeErr THEN <<"console">> ELSE <<>>)]

\* what a step writes when it calls no notifier
NoDispatch == [lines |-> <<>>, alerts |-> <<>>, seq |-> <<>>]

\* LookPath and Run of a notification tool: not installed, installed and
\* exiting with an error, installed and exiting with success
ToolStates == {"absent", "fails", "works"}

\* what the notifier finds on the machine: runtime.GOOS, whether DISPLAY or
\* WAYLAND_DISPLAY is set, the three Linux tools, and whether osascript or
\* powershell exits with success
PlatformEnv(goos, display, notifySend, kdialog, zenity, run) ==
    [goos |-> goos, display |-> display, notifySend |-> notifySend,
     kdialog |-> kdialog, zenity |-> zenity, run |-> run]

Platforms ==
    {PlatformEnv(goos, TRUE, "absent", "absent", "absent", run) :
        goos \in {"darwin", "windows"}, run \in BOOLEAN}
    \cup {PlatformEnv("freebsd", TRUE, "absent", "absent", "absent", TRUE)}
    \cup {PlatformEnv("linux", FALSE, "works", "absent", "absent", TRUE)}
    \cup {PlatformEnv("linux", TRUE, a, b, c, TRUE) :
            a \in ToolStates, b \in ToolStates, c \in ToolStates}

\* each send...Notification yields the error it returns and the commands it ran
sendMacOSNotification(env) == [err |-> ~env.run, ran |-> <<"osascript">>]

sendLinuxNotification(env) ==
    LET try(tool, name) == IF tool = "absent" THEN <<>> ELSE <<name>>
        r1 == try(env.notifySend, "notify-send")
        r2 == r1 \o try(env.kdialog, "kdialog")
        r3 == r2 \o try(env.zenity, "zenity")
    IN  IF ~env.display THEN [err |-> TRUE, ran |-> <<>>]
        ELSE IF env.notifySend = "works" THEN [err |-> FALSE, ran |-> r1]
        ELSE IF env.kdialog = "works" THEN [err |-> FALSE, ran |-> r2]
        ELSE IF env.zenity = "works" THEN [err |-> FALSE, ran |-> r3]
        ELSE [err |-> TRUE, ran |-> r3]

sendWindowsNotification(env) == [err |-> ~env.run, ran |-> <<"powershell">>]

sendNativeNotification(env) ==
    CASE env.goos = "darwin"  -> sendMacOSNotification(env)
      [] env.goos = "linux"   -> sendLinuxNotification(env)
      [] env.goos = "windows" -> sendWindowsNotification(env)
      [] OTHER                -> [err |-> TRUE, ran |-> <<>>]

sendNotification(command, duration, success, nativeErr) ==
    LET status  == IF success THEN strCompleted ELSE strFailed
        icon    == IF success THEN "ok" ELSE "fail"
        message == strCommandQ \o command \o strQSp \o status \o strAfter
                   \o DurationString(Round(duration, Second))
    IN  Dispatch(<<"C", "m", "d", "B", "e", "l", "l">>, message, icon, nativeErr)

\* sendContainerNotification with the duration cut to whole seconds instead
\* of rounded
sendContainerNotification_Truncating(command, containerName, duration, success, nativeErr) ==
    LET status  == IF success THEN strCompleted ELSE strFailed
        icon    == IF success THEN "ok" ELSE "fail"
        message == strCommandQ \o command \o strQInQ \o containerName \o strQSp
                   \o status \o strAfter \o DurationString(duration - (duration % Second))
    IN  Dispatch(titleContainer, message, icon, nativeErr)

sendContainerNotification(command, containerName, duration, success, nativeErr) ==
    LET status  == IF success THEN strCompleted ELSE strFailed
        icon    == IF success THEN "ok" ELSE "fail"
        message == strCommandQ \o command \o strQInQ \o containerName \o strQSp
                   \o status \o strAfter \o DurationString(Round(duration, Second))
    IN  Dispatch(titleContainer, message, icon, nativeErr)

(***************************************************************************)
(* bounds and inputs                                                       *)
(***************************************************************************)
\* lines read from the Docker event stream in one run
MaxFacts == 6

ExecIDs == {"e1", "e2"}

\* the instants the clock is read at
Times == {0, 14500, 30000}

strMakeAll == <<"m", "a", "k", "e", " ", "a", "l", "l">>

strExecCreate == <<"e", "x", "e", "c", "_", "c", "r", "e", "a", "t", "e", ":">>

strExecStart == <<"e", "x", "e", "c", "_", "s", "t", "a", "r", "t", ":">>

strExecDie == <<"e", "x", "e", "c", "_", "d", "i", "e">>

strUnknown == <<"u", "n", "k", "n", "o", "w", "n">>

strSleep20 == <<"s", "l", "e", "e", "p", " ", "2", "0">>

strZero == <<"0">>

strOne == <<"1">>

\* An execID is an opaque name here.  The names of ExecIDs stand for the
\* 64 hexadecimal digits Docker gives an exec; "" is what the attribute map
\* yields when the event has no execID, "abc123" an id of six characters.
ExecIDLen(execID) ==
    CASE execID = ""       -> 0
      [] execID = "abc123" -> 6
      [] OTHER             -> 64

\* a decoded line of `docker events --format {{json .}}`
DockerEvent(action, execID, exitCode) ==
    [Action |-> action, ID |-> "c1", execID |-> execID, exitCode |-> exitCode]

Events ==
    UNION { { DockerEvent(strExecCreate \o <<" ">> \o strSleep20, id, <<>>),
              DockerEvent(strExecStart \o <<" ">> \o strSleep20, id, <<>>),
              DockerEvent(strExecDie, id, strZero),
              DockerEvent(strExecDie, id, strOne) } : id \in ExecIDs }

\* the outcomes of `docker inspect --format {{.Name}} <container>`
Inspects == { [err |-> TRUE, output |-> <<>>], [err |-> FALSE, output |-> <<"/", "d", "e", "v", "b", "o", "x", "\n">>] }

\* the same for the second container
Inspects2 == { [err |-> TRUE, output |-> <<>>], [err |-> FALSE, output |-> <<"/", "c", "i", "\n">>] }

\* a line of the event stream: JSON that decodes to an event, or not
Lines ==
    {[valid |-> TRUE, event |-> e] : e \in Events}
    \cup {[valid |-> FALSE, event |-> DockerEvent(<<>>, "", <<>>)]}

\* the events of one execution id that two containers use in turn
ReuseEvents ==
    { DockerEvent(strExecCreate \o <<" ">> \o strSleep20, "e1", <<>>),
      [DockerEvent(strExecCreate \o <<" ">> \o strMakeAll, "e1", <<>>) EXCEPT !.ID = "c2"],
      DockerEvent(strExecStart \o <<" ">> \o strSleep20, "e1", <<>>),
      [DockerEvent(strExecStart \o <<" ">> \o strMakeAll, "e1", <<>>) EXCEPT !.ID = "c2"],
      DockerEvent(strExecDie, "e1", strZero),
      [DockerEvent(strExecDie, "e1", strOne) EXCEPT !.ID = "c2"] }

ReuseLines == {[valid |-> TRUE, event |-> e] : e \in ReuseEvents}

\* A stream with what a reader must survive: the facts of one exec, dies
\* without an exitCode and with one that is not a status, creates without an
\* execID and with a short one, container events that are no exec fact, and
\* a line that is not JSON.
CorruptEvents ==
    { DockerEvent(strExecCreate \o <<" ">> \o strSleep20, "e1", <<>>),
      DockerEvent(strExecStart \o <<" ">> \o strSleep20, "e1", <<>>),
      DockerEvent(strExecDie, "e1", strZero),
      DockerEvent(strExecDie, "e1", <<>>),
      DockerEvent(strExecDie, "e1", <<"0", "0">>),
      DockerEvent(strExecCreate \o <<" ">> \o strSleep20, "", <<>>),
      DockerEvent(strExecCreate \o <<" ">> \o strSleep20, "abc123", <<>>),
      DockerEvent(<<"s", "t", "a", "r", "t">>, "", <<>>),
      DockerEvent(<<"d", "i", "e">>, "", strOne) }

CorruptLines ==
    {[valid |-> TRUE, event |-> e] : e \in CorruptEvents}
    \cup {[valid |-> FALSE, event |-> DockerEvent(<<>>, "", <<>>)]}

(***************************************************************************)
(* state                                                                   *)
(***************************************************************************)
VARIABLES
    globalConfig,   \* the configuration pointer: {} is nil, {c} points to c
    hs,             \* the HTTPServer that serves the requests
    pidFile,        \* ~/.cmdbell.pid: {} when absent, {text} when present
    shellConfig,    \* per shell, its config file: {} when absent, {content} when present
    daemon,         \* per `cmdbell --daemon start` process: its Daemon and position
    reader,         \* the process of the reader goroutine: "running" or "panicked"
    stream,         \* the pipe from `docker events` and the handler calls in progress
    execMap,        \* DockerMonitor.execMap: execID -> ContainerExecInfo
    now,            \* the wall clock, time.Now()
    out,            \* what the last step wrote: console lines and native alerts
    resp,           \* the response of the HTTP request handled last
    exit,           \* the exit status of the local command run last
    nfacts,         \* history: lines of the event stream read so far
    nreqs,          \* history: HTTP requests handled so far
    nruns,          \* history: local commands run so far
    last,           \* history: the step taken last and its inputs
    phase,          \* history: per execID, the facts handled so far (see Advance)
    startAt,        \* history: per execID, the clock when a start was last handled
    sent            \* history: per execID, notifier calls made for it so far

vars == <<globalConfig, hs, pidFile, shellConfig, daemon, reader, stream, execMap, now, out, resp, exit, nfacts, nreqs, nruns, last, phase,
          startAt, sent>>

\* the variables the daemon's start and stop leave alone
appVars == <<globalConfig, hs, shellConfig, reader, stream, execMap, now, out, resp, exit, nfacts, nreqs, nruns, last,
             phase, startAt, sent>>

\* the zero time.Time of a ContainerExecInfo whose start has not been seen
ZeroTime == -1

\* time.Since at the instant t1
Since(t1, t) == IF t = ZeroTime THEN maxDuration ELSE t1 - t

(***************************************************************************)
(* Docker monitor (docker.go)                                              *)
(***************************************************************************)
handleExecCreate(event, inspect) ==
    LET execID        == event.execID
        containerID   == event.ID
        containerName == TrimPrefix(TrimSpace(inspect.output), <<"/">>)
        colonIndex    == Index(event.Action, <<":", " ">>)
        command       == IF colonIndex # -1 THEN From(event.Action, colonIndex + 2)
                         ELSE strUnknown
        info          == [ContainerID   |-> containerID,
                          ContainerName |-> containerName,
                          Command       |-> command,
                          StartTime     |-> ZeroTime]
    IN  IF inspect.err
        THEN /\ out' = NoDispatch
             /\ UNCHANGED <<execMap, reader>>
        ELSE /\ execMap' = [id \in DOMAIN execMap \cup {execID} |->
                               IF id = execID THEN info ELSE execMap[id]]
             /\ IF ExecIDLen(execID) < 12
                \* execID[:12] is out of range: the goroutine panics
                THEN out' = NoDispatch /\ reader' = "panicked"
                ELSE /\ out' = [NoDispatch EXCEPT !.lines =
                              <<[kind |-> "created", name |-> containerName, id |-> execID]>>]
                     /\ UNCHANGED reader

\* handleExecStart that makes a record for an id it does not know
handleExecStart_Upsert(event) ==
    LET execID == event.execID
        info   == IF execID \in DOMAIN execMap THEN execMap[execID]
                  ELSE [ContainerID |-> event.ID, ContainerName |-> <<>>,
                        Command |-> strUnknown, StartTime |-> ZeroTime]
    IN  /\ execMap' = [id \in DOMAIN execMap \cup {execID} |->
                          IF id = execID THEN [info EXCEPT !.StartTime = now']
                          ELSE execMap[id]]
        /\ out' = [NoDispatch EXCEPT !.lines =
                      <<[kind |-> "started", name |-> info.ContainerName]>>]

handleExecStart(event) ==
    LET execID == event.execID
    IN  IF execID \in DOMAIN execMap
        THEN /\ execMap' = [execMap EXCEPT ![execID].StartTime = now']
             /\ out' = [NoDispatch EXCEPT !.lines =
                           <<[kind |-> "started", name |-> execMap[execID].ContainerName]>>]
        ELSE /\ out' = NoDispatch
             /\ UNCHANGED execMap

\* the policy test with a strict comparison
Gate_Strict(duration) ==
    /\ globalConfig # {}
    /\ LET config == CHOOSE c \in globalConfig : TRUE
       IN  duration > config.MinDurationTime /\ config.EnableNotify

\* the policy test of handleExecDie
Gate(duration) ==
    /\ globalConfig # {}
    /\ LET config == CHOOSE c \in globalConfig : TRUE
       IN  duration >= config.MinDurationTime /\ config.EnableNotify

\* handleExecDie without the test that the id has a record: a missing record
\* reads as the zero ContainerExecInfo
handleExecDie_NoExistsTest(event, nativeErr) ==
    LET execID   == event.execID
        info     == IF execID \in DOMAIN execMap THEN execMap[execID]
                    ELSE [ContainerID |-> "", ContainerName |-> <<>>,
                          Command |-> <<>>, StartTime |-> ZeroTime]
        duration == Since(now', info.StartTime)
        exitCode == event.exitCode
        success  == exitCode = strZero
        sentOut  == IF Gate(duration)
                    THEN sendContainerNotification(info.Command, info.ContainerName,
                                                   duration, success, nativeErr)
                    ELSE NoDispatch
    IN  /\ execMap' = [id \in DOMAIN execMap \ {execID} |-> execMap[id]]
        /\ out' = [sentOut EXCEPT !.lines = @ \o
                      <<[kind |-> "done", name |-> info.ContainerName,
                         duration |-> DurationString(Round(duration, Second)),
                         exit |-> exitCode]>>]

\* handleExecDie that deletes the record only when it notified
handleExecDie_DeleteWhenNotified(event, nativeErr) ==
    LET execID == event.execID
    IN  IF execID \in DOMAIN execMap
        THEN LET info     == execMap[execID]
                 duration == Since(now', info.StartTime)
                 exitCode == event.exitCode
                 success  == exitCode = strZero
                 sentOut  == IF Gate(duration)
                             THEN sendContainerNotification(info.Command, info.ContainerName,
                                                            duration, success, nativeErr)
                             ELSE NoDispatch
             IN  /\ execMap' = IF Gate(duration)
                               THEN [id \in DOMAIN execMap \ {execID} |-> execMap[id]]
                               ELSE execMap
                 /\ out' = [sentOut EXCEPT !.lines = @ \o
                               <<[kind |-> "done", name |-> info.ContainerName,
                                  duration |-> DurationString(Round(duration, Second)),
                                  exit |-> exitCode]>>]
        ELSE /\ out' = NoDispatch
             /\ UNCHANGED execMap

\* handleExecDie without the delete
handleExecDie_NoDelete(event, nativeErr) ==
    LET execID == event.execID
    IN  IF execID \in DOMAIN execMap
        THEN LET info     == execMap[execID]
                 duration == Since(now', info.StartTime)
                 exitCode == event.exitCode
                 success  == exitCode = strZero
                 sentOut  == IF Gate(duration)
                             THEN sendContainerNotification(info.Command, info.ContainerName,
                                                            duration, success, nativeErr)
                             ELSE NoDispatch
             IN  /\ UNCHANGED execMap
                 /\ out' = [sentOut EXCEPT !.lines = @ \o
                               <<[kind |-> "done", name |-> info.ContainerName,
                                  duration |-> DurationString(Round(duration, Second)),
                                  exit |-> exitCode]>>]
        ELSE /\ out' = NoDispatch
             /\ UNCHANGED execMap

\* handleExecDie that takes every exit status but "1" for success
handleExecDie_SuccessUnlessOne(event, nativeErr) ==
    LET execID == event.execID
    IN  IF execID \in DOMAIN execMap
        THEN LET info     == execMap[execID]
                 duration == Since(now', info.StartTime)
                 exitCode == event.exitCode
                 success  == exitCode # strOne
                 sentOut  == IF Gate(duration)
                             THEN sendContainerNotification(info.Command, info.ContainerName,
                                                            duration, success, nativeErr)
                             ELSE NoDispatch
             IN  /\ execMap' = [id \in DOMAIN execMap \ {execID} |-> execMap[id]]
                 /\ out' = [sentOut EXCEPT !.lines = @ \o
                               <<[kind |-> "done", name |-> info.ContainerName,
                                  duration |-> DurationString(Round(duration, Second)),
                                  exit |-> exitCode]>>]
        ELSE /\ out' = NoDispatch
             /\ UNCHANGED execMap

\* handleExecDie that prints its line only for a completion it notified
handleExecDie_QuietBelowGate(event, nativeErr) ==
    LET execID == event.execID
    IN  IF execID \in DOMAIN execMap
        THEN LET info     == execMap[execID]
                 duration == Since(now', info.StartTime)
                 exitCode == event.exitCode
                 success  == exitCode = strZero
             IN  /\ execMap' = [id \in DOMAIN execMap \ {execID} |-> execMap[id]]
                 /\ out' = IF Gate(duration)
                           THEN [sendContainerNotification(info.Command, info.ContainerName,
                                                           duration, success, nativeErr)
                                   EXCEPT !.lines = @ \o
                                     <<[kind |-> "done", name |-> info.ContainerName,
                                        duration |-> DurationString(Round(duration, Second)),
                                        exit |-> exitCode]>>]
                           ELSE NoDispatch
        ELSE /\ out' = NoDispatch
             /\ UNCHANGED execMap

handleExecDie(event, nativeErr) ==
    LET execID == event.execID
    IN  IF execID \in DOMAIN execMap
        THEN LET info     == execMap[execID]
                 duration == Since(now', info.StartTime)
                 exitCode == event.exitCode
                 success  == exitCode = strZero
                 sentOut  == IF Gate(duration)
                             THEN sendContainerNotification(info.Command, info.ContainerName,
                                                            duration, success, nativeErr)
                             ELSE NoDispatch
             IN  /\ execMap' = [id \in DOMAIN execMap \ {execID} |-> execMap[id]]
                 /\ out' = [sentOut EXCEPT !.lines = @ \o
                               <<[kind |-> "done", name |-> info.ContainerName,
                                  duration |-> DurationString(Round(duration, Second)),
                                  exit |-> exitCode]>>]
        ELSE /\ out' = NoDispatch
             /\ UNCHANGED execMap

\* only handleExecCreate has a statement that can panic
handleEvent(event, inspect, nativeErr) ==
    IF HasPrefix(event.Action, strExecCreate) THEN handleExecCreate(event, inspect)
    ELSE IF HasPrefix(event.Action, strExecStart)
    THEN handleExecStart(event) /\ UNCHANGED reader
    ELSE IF event.Action = strExecDie
    THEN handleExecDie(event, nativeErr) /\ UNCHANGED reader
    ELSE out' = NoDispatch /\ UNCHANGED <<execMap, reader>>

\* which fact a decoded event is, by the tests of handleEvent
KindOf(event) ==
    IF HasPrefix(event.Action, strExecCreate) THEN "create"
    ELSE IF HasPrefix(event.Action, strExecStart) THEN "start"
    ELSE IF event.Action = strExecDie THEN "die"
    ELSE "other"

\* history of one execID: "none" no fact yet, "c" a create, "cs" a create then
\* a start, "csd" a create, a start and a die, "s" a start with no create
\* before it, "sd" that start followed by a die, "d" a die with no fact
\* before it, "x" any other sequence
Advance(p, kind) ==
    CASE p = "none" /\ kind = "create" -> "c"
      [] p = "none" /\ kind = "start"  -> "s"
      [] p = "none" /\ kind = "die"    -> "d"
      [] p = "c"    /\ kind = "start"  -> "cs"
      [] p = "cs"   /\ kind = "die"    -> "csd"
      [] p = "s"    /\ kind = "die"    -> "sd"
      [] OTHER                         -> "x"

\* the history of a step that read line
Record(line, inspect) ==
    LET id   == line.event.execID
        kind == KindOf(line.event)
    IN  /\ nfacts' = nfacts + 1
        /\ last' = [op |-> "line", line |-> line, inspect |-> inspect]
        /\ IF line.valid /\ id \in ExecIDs /\ kind # "other"
           THEN /\ phase' = [phase EXCEPT ![id] = Advance(phase[id], kind)]
                /\ startAt' = IF kind = "start" THEN [startAt EXCEPT ![id] = now'] ELSE startAt
                /\ sent' = [sent EXCEPT ![id] = @ + Len(out'.alerts)]
           ELSE UNCHANGED <<phase, startAt, sent>>

\* the outcomes of the environment that the handling of line consults: the
\* container lookup of a create, the native alert of a die
InspectsOf(line) ==
    IF line.valid /\ KindOf(line.event) = "create"
    THEN (IF line.event.ID = "c2" THEN Inspects2 ELSE Inspects)
    ELSE {[err |-> FALSE, output |-> <<>>]}

NativeErrsOf(line) ==
    IF line.valid /\ KindOf(line.event) = "die" THEN BOOLEAN ELSE {FALSE}

\* the reader goroutine that ends at a line it cannot decode
ReadFrom_StopsAtBadLine(lines) ==
    \E line \in lines, t \in Times :
      \E inspect \in InspectsOf(line), nativeErr \in NativeErrsOf(line) :
        /\ nfacts < MaxFacts
        /\ reader = "running"
        /\ t >= now
        /\ now' = t
        /\ IF line.valid
           THEN handleEvent(line.event, inspect, nativeErr)
           ELSE out' = NoDispatch /\ reader' = "stopped" /\ UNCHANGED execMap
        /\ Record(line, inspect)
        /\ UNCHANGED <<globalConfig, hs, pidFile, shellConfig, daemon, stream, resp, exit, nreqs, nruns>>

\* One turn of the reader goroutine of DockerMonitor.Start: the scanner
\* blocks until a line arrives at some instant t, the line is decoded and,
\* when it decodes, handled.
ReadFrom(lines) ==
    \E line \in lines, t \in Times :
      \E inspect \in InspectsOf(line), nativeErr \in NativeErrsOf(line) :
        /\ nfacts < MaxFacts
        /\ reader = "running"
        /\ t >= now
        /\ now' = t
        /\ IF line.valid
           THEN handleEvent(line.event, inspect, nativeErr)
           ELSE out' = NoDispatch /\ UNCHANGED <<execMap, reader>>
        /\ Record(line, inspect)
        /\ UNCHANGED <<globalConfig, hs, pidFile, shellConfig, daemon, stream, resp, exit, nreqs, nruns>>

\* the reader goroutine on the stream of the model
ReadLine == ReadFrom(Lines)

\* the reader goroutine on a stream with corrupt and foreign lines
CorruptLine == ReadFrom(CorruptLines)

\* the reader goroutine on a stream in which one execution id is used by
\* execs in two containers
ReuseLine == ReadFrom(ReuseLines)

(***************************************************************************)
(* the reader goroutine and the pipe it reads (docker.go)                  *)
(***************************************************************************)
\* lines the pipe holds before a write to it blocks
MaxPipeLen == 2

\* the instants lines are written at
PipeTimes == {0, 30000, 50000}

\* how long a native alert may keep its caller: the Windows script sleeps
\* six seconds before it returns
NativeDelay == 6 * Second

\* the lines of executions that exit with 0
PipeLines == {line \in Lines : line.valid /\ line.event.exitCode # strOne}

\* pipe: the lines written and not yet scanned, each with the instant it was
\* written at and its position in the stream.  inflight: the calls of
\* handleEvent that have not returned, each with the instant it returns at.
\* ctx: the context of the monitor, "live" or "cancelled".  sub: the
\* subprocess, "running" or "killed".
\* n, written and startArrived are history: the lines written so far, per
\* execID the facts the subprocess has written (see Advance), and when the
\* start handled last had been written.
NewStream ==
    [pipe         |-> <<>>,
     inflight     |-> <<>>,
     ctx          |-> "live",
     sub          |-> "running",
     n            |-> 0,
     written      |-> [id \in ExecIDs |-> "none"],
     startArrived |-> [id \in ExecIDs |-> ZeroTime]]

\* the instant the first of the calls in progress returns
RECURSIVE MinUntil(_)
MinUntil(calls) ==
    IF Len(calls) = 1 THEN calls[1].until
    ELSE LET m == MinUntil(Tail(calls))
         IN  IF calls[1].until < m THEN calls[1].until ELSE m

\* scanner.Scan of a goroutine that outlives its process
ScanReady_Always == stream.inflight = <<>> /\ stream.pipe # <<>>

\* scanner.Scan has a line to return and the goroutine is free to take it
ScanReady == reader = "running" /\ stream.inflight = <<>> /\ stream.pipe # <<>>

\* The subprocess writes a line at the instant t: Docker reports an
\* execution as a create, then a start, then a die.  Time does not pass while
\* the reader has a line to scan, nor beyond the return of a call in
\* progress.
Arrive ==
    \E line \in PipeLines, t \in PipeTimes :
        /\ stream.sub = "running"
        /\ Advance(stream.written[line.event.execID], KindOf(line.event))
              \in {"c", "cs", "csd"}
        /\ Len(stream.pipe) < MaxPipeLen
        /\ t >= now
        /\ ScanReady => t = now
        /\ stream.inflight # <<>> => t <= MinUntil(stream.inflight)
        /\ now' = t
        /\ stream' = [stream EXCEPT
                          !.pipe = Append(@, [line |-> line, at |-> t, k |-> stream.n + 1]),
                          !.n = @ + 1,
                          !.written[line.event.execID] = Advance(@, KindOf(line.event))]
        /\ UNCHANGED <<globalConfig, hs, pidFile, shellConfig, daemon, reader, execMap, out, resp, exit,
                       nfacts, nreqs, nruns, last, phase, startAt, sent>>

\* the history of a step that takes entry from the pipe and calls handleEvent
\* on it, to return after delay
Called(entry, inspect, delay) ==
    /\ out'.alerts = <<>> => delay = 0
    /\ Record(entry.line, inspect)
    /\ stream' = [stream EXCEPT
                     !.pipe         = SelectSeq(@, LAMBDA e : e.k # entry.k),
                     !.inflight     = Append(@, [line |-> entry.line, k |-> entry.k,
                                                 until |-> now + delay]),
                     !.startArrived =
                         IF KindOf(entry.line.event) = "start"
                         THEN [@ EXCEPT ![entry.line.event.execID] = entry.at] ELSE @]

\* a reader that starts a goroutine per event: go dm.handleEvent(event)
Begin_Async ==
    /\ reader = "running" /\ stream.pipe # <<>>
    /\ LET entry == Head(stream.pipe)
           line  == entry.line
       IN  \E inspect \in {found \in InspectsOf(line) : ~found.err}, nativeErr \in NativeErrsOf(line),
              delay \in {0, NativeDelay} :
               /\ now' = now
               /\ handleEvent(line.event, inspect, nativeErr)
               /\ Called(entry, inspect, delay)
    /\ UNCHANGED <<globalConfig, hs, pidFile, shellConfig, daemon, resp, exit, nreqs, nruns>>

\* a reader that takes any of the waiting lines
Begin_Unordered ==
    /\ ScanReady
    /\ \E i \in 1..Len(stream.pipe) :
         LET entry == stream.pipe[i]
             line  == entry.line
         IN  \E inspect \in {found \in InspectsOf(line) : ~found.err}, nativeErr \in NativeErrsOf(line),
                delay \in {0, NativeDelay} :
                 /\ now' = now
                 /\ handleEvent(line.event, inspect, nativeErr)
                 /\ Called(entry, inspect, delay)
    /\ UNCHANGED <<globalConfig, hs, pidFile, shellConfig, daemon, resp, exit, nreqs, nruns>>

\* The loop of the reader goroutine up to the point where handleEvent has
\* made its changes: the next line is scanned, decoded and handled.  The
\* call returns at once, or NativeDelay later when it dispatched a
\* notification whose native alert keeps it.
Begin ==
    /\ ScanReady
    /\ LET entry == Head(stream.pipe)
           line  == entry.line
       IN  \E inspect \in {found \in InspectsOf(line) : ~found.err}, nativeErr \in NativeErrsOf(line),
              delay \in {0, NativeDelay} :
               /\ now' = now
               /\ IF line.valid
                  THEN handleEvent(line.event, inspect, nativeErr)
                  ELSE out' = NoDispatch /\ UNCHANGED <<execMap, reader>>
               /\ Called(entry, inspect, delay)
    /\ UNCHANGED <<globalConfig, hs, pidFile, shellConfig, daemon, resp, exit, nreqs, nruns>>

\* a call of handleEvent returns
End ==
    \E i \in 1..Len(stream.inflight) :
        /\ stream.inflight[i].until = MinUntil(stream.inflight)
        /\ now' = stream.inflight[i].until
        /\ stream' = [stream EXCEPT !.inflight =
                          SubSeq(@, 1, i - 1) \o SubSeq(@, i + 1, Len(@))]
        /\ UNCHANGED <<globalConfig, hs, pidFile, shellConfig, daemon, reader, execMap, out, resp, exit,
                       nfacts, nreqs, nruns, last, phase, startAt, sent>>

\* DockerMonitor.Stop: the context is cancelled and the console says so
Stop ==
    /\ stream.ctx = "live"
    /\ stream' = [stream EXCEPT !.ctx = "cancelled"]
    /\ out' = [NoDispatch EXCEPT !.lines = <<[kind |-> "monitor-stopped"]>>]
    /\ UNCHANGED <<globalConfig, hs, pidFile, shellConfig, daemon, reader, execMap, now, resp, exit,
                   nfacts, nreqs, nruns, last, phase, startAt, sent>>

\* exec.CommandContext: the subprocess of a cancelled context is killed
Terminate ==
    /\ stream.ctx = "cancelled"
    /\ stream.sub = "running"
    /\ stream' = [stream EXCEPT !.sub = "killed"]
    /\ UNCHANGED <<globalConfig, hs, pidFile, shellConfig, daemon, reader, execMap, now, out, resp, exit,
                   nfacts, nreqs, nruns, last, phase, startAt, sent>>

\* The reader goroutine ends: its loop reaches the end of the killed
\* subprocess's output, or the process, which both callers of Stop leave
\* right after it, ends under it.
Exit ==
    /\ reader = "running"
    /\ stream.ctx = "cancelled"
    /\ reader' = "exited"
    /\ UNCHANGED <<globalConfig, hs, pidFile, shellConfig, daemon, stream, execMap, now, out, resp, exit,
                   nfacts, nreqs, nruns, last, phase, startAt, sent>>

(***************************************************************************)
(* HTTP report ingress (http_server.go)                                    *)
(***************************************************************************)
\* requests handled by the HTTP server in one run
MaxRequests == 2

strDevbox == <<"d", "e", "v", "b", "o", "x">>

str20s == <<"2", "0", "s">>

str1500ms == <<"1", "5", "0", "0", "m", "s">>

str14p5s == <<"1", "4", ".", "5", "s">>

strUnknownContainer ==
    <<"u", "n", "k", "n", "o", "w", "n", "_", "c", "o", "n", "t", "a", "i", "n", "e", "r">>

Methods == {"POST", "GET"}

\* A request body: text that is not JSON for a NotificationRequest
\* (valid = FALSE), or an object in which each key is absent ({}) or present
\* with a value ({v}).
Bodies ==
    {[valid |-> FALSE, command |-> {}, container_name |-> {}, duration |-> {}, success |-> {}]}
    \cup [valid          : {TRUE},
          command        : {{}, {<<>>}, {strSleep20}},
          container_name : {{}, {strDevbox}},
          duration       : {{}, {str20s}, {str1500ms}, {str14p5s}, {strSoon}},
          success        : {{}, {TRUE}, {FALSE}}]

Requests == [Method : Methods, Body : Bodies]

\* the value of a key, or the zero value of its Go type when it is absent
ValueOr(field, zero) == IF field = {} THEN zero ELSE CHOOSE v \in field : TRUE

\* json.NewDecoder(r.Body).Decode(&req): the pair (req, err)
Decode(body) ==
    [err |-> ~body.valid,
     req |-> [Command       |-> ValueOr(body.command, <<>>),
              ContainerName |-> ValueOr(body.container_name, <<>>),
              Duration      |-> ValueOr(body.duration, <<>>),
              Success       |-> ValueOr(body.success, FALSE)]]

\* NewHTTPServer
NewHTTPServer(port) == [port |-> port]

\* http.Error
HttpError(text, code) == [status |-> code, body |-> [error |-> text]]

StatusOK == 200

StatusBadRequest == 400

StatusMethodNotAllowed == 405

\* handleNotification that drops the error of time.ParseDuration
handleNotification_IgnoresParseError(r, nativeErr) ==
    LET dec           == Decode(r.Body)
        req           == dec.req
        duration      == ParseDuration(req.Duration).d
        containerName == IF req.ContainerName = <<>> THEN strUnknownContainer
                         ELSE req.ContainerName
    IN  IF r.Method # "POST"
        THEN /\ resp' = HttpError("Method not allowed", StatusMethodNotAllowed)
             /\ out' = NoDispatch
        ELSE IF dec.err
        THEN /\ resp' = HttpError("Invalid JSON payload", StatusBadRequest)
             /\ out' = NoDispatch
        ELSE IF req.Command = <<>>
        THEN /\ resp' = HttpError("Missing required field: command", StatusBadRequest)
             /\ out' = NoDispatch
        ELSE IF req.Duration = <<>>
        THEN /\ resp' = HttpError("Missing required field: duration", StatusBadRequest)
             /\ out' = NoDispatch
        ELSE /\ out' = sendContainerNotification(req.Command, containerName, duration,
                                                 req.Success, nativeErr)
             /\ resp' = [status |-> StatusOK,
                         body   |-> [status |-> "success", message |-> "Notification sent"]]

handleNotification(r, nativeErr) ==
    LET dec           == Decode(r.Body)
        req           == dec.req
        parsed        == ParseDuration(req.Duration)
        duration      == parsed.d
        containerName == IF req.ContainerName = <<>> THEN strUnknownContainer
                         ELSE req.ContainerName
    IN  IF r.Method # "POST"
        THEN /\ resp' = HttpError("Method not allowed", StatusMethodNotAllowed)
             /\ out' = NoDispatch
        ELSE IF dec.err
        THEN /\ resp' = HttpError("Invalid JSON payload", StatusBadRequest)
             /\ out' = NoDispatch
        ELSE IF req.Command = <<>>
        THEN /\ resp' = HttpError("Missing required field: command", StatusBadRequest)
             /\ out' = NoDispatch
        ELSE IF req.Duration = <<>>
        THEN /\ resp' = HttpError("Missing required field: duration", StatusBadRequest)
             /\ out' = NoDispatch
        ELSE IF parsed.err
        THEN /\ resp' = HttpError("Invalid duration format", StatusBadRequest)
             /\ out' = NoDispatch
        ELSE /\ out' = sendContainerNotification(req.Command, containerName, duration,
                                                 req.Success, nativeErr)
             /\ resp' = [status |-> StatusOK,
                         body   |-> [status |-> "success", message |-> "Notification sent"]]

\* handleHealth that reports the default port whatever the server listens on
handleHealth_DefaultPort(r) ==
    IF r.Method # "GET"
    THEN /\ resp' = HttpError("Method not allowed", StatusMethodNotAllowed)
         /\ out' = NoDispatch
    ELSE /\ resp' = [status |-> StatusOK,
                     body   |-> [status |-> "healthy", server |-> "cmdbell-http",
                                 port |-> DefaultPort]]
         /\ out' = NoDispatch

\* The map handleHealth encodes holds two strings and an int, so Encode has
\* no failing case of its own.
handleHealth(r) ==
    IF r.Method # "GET"
    THEN /\ resp' = HttpError("Method not allowed", StatusMethodNotAllowed)
         /\ out' = NoDispatch
    ELSE /\ resp' = [status |-> StatusOK,
                     body   |-> [status |-> "healthy", server |-> "cmdbell-http",
                                 port |-> hs.port]]
         /\ out' = NoDispatch

\* one request to /health, served by the handler
Health ==
    \E method \in Methods :
        /\ handleHealth([Method |-> method])
        /\ last' = [op |-> "health", Method |-> method]
        /\ UNCHANGED <<globalConfig, hs, pidFile, shellConfig, daemon, stream, reader, execMap, now, exit, nfacts, nreqs, nruns, phase,
                       startAt, sent>>

\* a /notify handler that shares the completion path of the Docker monitor:
\* an accepted report also removes the records of the container it names
NotifyFrom_ClearsRecords(requests) ==
    \E r \in requests, nativeErr \in BOOLEAN :
        /\ nreqs < MaxRequests
        /\ handleNotification(r, nativeErr)
        /\ nreqs' = nreqs + 1
        /\ last' = [op |-> "notify", r |-> r]
        /\ LET keep == IF resp'.status = StatusOK
                       THEN {id \in DOMAIN execMap :
                                {execMap[id].ContainerName} # r.Body.container_name}
                       ELSE DOMAIN execMap
           IN  execMap' = [id \in keep |-> execMap[id]]
        /\ UNCHANGED <<globalConfig, hs, pidFile, shellConfig, daemon, stream, reader, now, exit, nfacts, nruns, phase, startAt, sent>>

\* one request to /notify out of requests, served by the handler
NotifyFrom(requests) ==
    \E r \in requests, nativeErr \in BOOLEAN :
        /\ nreqs < MaxRequests
        /\ handleNotification(r, nativeErr)
        /\ nreqs' = nreqs + 1
        /\ last' = [op |-> "notify", r |-> r]
        /\ UNCHANGED <<globalConfig, hs, pidFile, shellConfig, daemon, stream, reader, execMap, now, exit, nfacts, nruns, phase, startAt, sent>>

Notify == NotifyFrom(Requests)

\* lines of the event stream read while reports come in over HTTP
MaxIngressFacts == 3

\* the requests of a run that has the Docker monitor and the HTTP server: a
\* report of 20s, one of 1.5s, a body that is not JSON, and a GET
IngressRequests ==
    LET report(duration) ==
            [valid |-> TRUE, command |-> {strSleep20}, container_name |-> {strDevbox},
             duration |-> {duration}, success |-> {TRUE}]
        noBody == [valid |-> TRUE, command |-> {}, container_name |-> {}, duration |-> {},
                   success |-> {}]
    IN  { [Method |-> "POST", Body |-> report(str20s)],
          [Method |-> "POST", Body |-> report(str1500ms)],
          [Method |-> "POST", Body |-> [noBody EXCEPT !.valid = FALSE]],
          [Method |-> "GET", Body |-> noBody] }

\* the facts of one execution
IngressLines == {line \in PipeLines : line.event.execID = "e1"}

IngressNotify == NotifyFrom(IngressRequests)

IngressLine == nfacts < MaxIngressFacts /\ ReadFrom(IngressLines)

(***************************************************************************)
(* local command (main.go)                                                 *)
(***************************************************************************)
\* local commands run
MaxRuns == 2

MIN_DURATION == 15 * Second

strMake == <<"m", "a", "k", "e">>

\* executeCommand that also fails when the native alert could not be sent
executeCommand_FailsWithNotifier(command, duration, runErr, nativeErr) ==
    /\ out' = IF duration >= MIN_DURATION
              THEN sendNotification(command, duration, ~runErr, nativeErr)
              ELSE NoDispatch
    /\ exit' = IF runErr \/ (duration >= MIN_DURATION /\ nativeErr) THEN 1 ELSE 0

\* executeCommand for a command that ran for `duration` and whose cmd.Run
\* returned an error (runErr) or nil
executeCommand(command, duration, runErr, nativeErr) ==
    /\ out' = IF duration >= MIN_DURATION
              THEN sendNotification(command, duration, ~runErr, nativeErr)
              ELSE NoDispatch
    /\ exit' = IF runErr THEN 1 ELSE 0

strLong == <<"l", "o", "n", "g">>

\* handleNotifyCommand for `cmdbell --notify <args>`; args holds what follows
\* --notify on the command line
handleNotifyCommand(args, nativeErr) ==
    IF Len(args) < 3
    THEN out' = NoDispatch /\ exit' = 1
    ELSE LET command     == args[1]
             durationStr == args[2]
             exitCodeStr == args[3]
             parsed      == ParseDuration(durationStr \o <<"s">>)
             success     == exitCodeStr = strZero
         IN  IF parsed.err
             THEN out' = NoDispatch /\ exit' = 1
             ELSE /\ out' = sendNotification(command, parsed.d, success, nativeErr)
                  /\ exit' = 0

\* the argument lists of the model: a hook's three arguments, or too few
NotifyArgs ==
    {<<strMake, seconds, code>> : seconds \in {<<"2", "0">>, <<"1", ".", "5">>, strLong}, code \in {strZero, strOne}}
    \cup {<<strMake>>}

\* one `cmdbell --notify` process on a machine env
NotifyCommand ==
    \E args \in NotifyArgs, env \in Platforms :
        /\ handleNotifyCommand(args, sendNativeNotification(env).err)
        /\ last' = [op |-> "hook", args |-> args, env |-> env]
        /\ UNCHANGED <<globalConfig, hs, pidFile, shellConfig, daemon, stream, reader, execMap, now, resp, nfacts, nreqs, nruns, phase,
                       startAt, sent>>

\* the bodies of Bodies that name the command and a 20s duration
AcceptedBodies ==
    [valid          : {TRUE},
     command        : {{strSleep20}},
     container_name : {{}, {strDevbox}},
     duration       : {{str20s}},
     success        : {{}, {TRUE}, {FALSE}}]

\* one accepted report to /notify served on a machine env
PlatformNotify ==
    \E body \in AcceptedBodies, env \in Platforms :
        /\ handleNotification([Method |-> "POST", Body |-> body],
                              sendNativeNotification(env).err)
        /\ last' = [op |-> "report", r |-> [Method |-> "POST", Body |-> body], env |-> env]
        /\ UNCHANGED <<globalConfig, hs, pidFile, shellConfig, daemon, stream, reader, execMap, now, exit, nfacts, nreqs, nruns, phase,
                       startAt, sent>>

Run ==
    \E command \in {<<"s", "l", "e", "e", "p">>, strMake}, duration \in {500, 14500, 15000, 20000}, runErr \in BOOLEAN,
       nativeErr \in BOOLEAN :
        /\ nruns < MaxRuns
        /\ executeCommand(command, duration, runErr, nativeErr)
        /\ nruns' = nruns + 1
        /\ last' = [op |-> "run", command |-> command, duration |-> duration,
                    runErr |-> runErr]
        /\ UNCHANGED <<globalConfig, hs, pidFile, shellConfig, daemon, stream, reader, execMap, now, resp, nfacts, nreqs, phase, startAt, sent>>

(***************************************************************************)
(* daemon (daemon.go)                                                      *)
(***************************************************************************)
\* the pids of the `cmdbell --daemon start` processes
Procs == {41, 42}

\* the config files a daemon process may find
DaemonConfigFiles ==
    { {},
      {[Yaml(str30s, TRUE) EXCEPT !.HTTPPort = AltPort]},
      {[Yaml(<<>>, TRUE) EXCEPT !.HTTPEnabled = FALSE]},
      {[Yaml(<<>>, TRUE) EXCEPT !.DockerMonitor = FALSE]} }

\* A process that has not been launched.  pc is its position: "off" not
\* launched, "check" about to call Start, "write" past the IsRunning test,
\* "setup" past writePIDFile, "running" Start returned nil, "exited" gone.
\* err is the error Start returned.  wrote, dockerErr and killed are history:
\* writePIDFile succeeded, NewDockerMonitor returned an error, the process
\* was killed.
NewProcess ==
    [pc |-> "off", config |-> getDefaultConfig, httpServer |-> {}, monitor |-> {},
     isRunning |-> FALSE, err |-> "", wrote |-> FALSE, dockerErr |-> FALSE,
     killed |-> FALSE, listening |-> FALSE]

\* the processes the operating system knows
Alive == {p \in Procs : daemon[p].pc \notin {"off", "exited"}}

\* strconv.Atoi on the digits of a pid: the pair (value, error)
Atoi(str) ==
    IF str # <<>> /\ \A i \in 1..Len(str) : IsDigit(str[i])
    THEN [n |-> DecValue(str), err |-> FALSE]
    ELSE [n |-> 0, err |-> TRUE]

GetPID ==
    IF pidFile = {} THEN 0
    ELSE LET data == CHOOSE t \in pidFile : TRUE
             r    == Atoi(data)
         IN  IF r.err THEN 0 ELSE r.n

\* IsRunning: the pair (result, PID file afterwards); a PID file naming a
\* process that does not answer signal 0 is removed
IsRunning ==
    LET pid == GetPID
    IN  IF pid = 0 THEN [running |-> FALSE, file |-> pidFile]
        ELSE IF pid \notin Alive THEN [running |-> FALSE, file |-> {}]
        ELSE [running |-> TRUE, file |-> pidFile]

\* NewDaemon in a freshly launched process that finds one of files
LaunchFrom(p, files) ==
    \E file \in files :
        /\ daemon[p].pc = "off"
        /\ daemon' = [daemon EXCEPT ![p].pc = "check",
                                    ![p].config = NewDaemonConfig(file)]
        /\ UNCHANGED <<pidFile, appVars>>

Launch(p) == LaunchFrom(p, DaemonConfigFiles)

\* Start that does not test for a running daemon
StartCheck_NoTest(p) ==
    /\ daemon[p].pc = "check"
    /\ daemon' = [daemon EXCEPT ![p].pc = "write"]
    /\ UNCHANGED <<pidFile, appVars>>

\* Start up to the IsRunning test; main exits with 1 when Start fails
StartCheck(p) ==
    /\ daemon[p].pc = "check"
    /\ LET r == IsRunning
       IN  /\ pidFile' = r.file
           /\ daemon' = IF r.running
                         THEN [daemon EXCEPT ![p].pc = "exited",
                                             ![p].err = "already running"]
                         ELSE [daemon EXCEPT ![p].pc = "write"]
    /\ UNCHANGED appVars

\* Start: writePIDFile
StartWrite(p) ==
    \E writeErr \in BOOLEAN :
        /\ daemon[p].pc = "write"
        /\ IF writeErr
           THEN /\ daemon' = [daemon EXCEPT ![p].pc = "exited",
                                            ![p].err = "failed to write PID file"]
                /\ UNCHANGED pidFile
           ELSE /\ pidFile' = {Itoa(p)}
                /\ daemon' = [daemon EXCEPT ![p].pc = "setup", ![p].wrote = TRUE]
        /\ UNCHANGED appVars

\* NewDockerMonitor: the pair (*DockerMonitor, error) for an outcome of
\* `docker version`
NewDockerMonitor(versionErr) ==
    IF versionErr THEN [monitor |-> {}, err |-> TRUE]
    ELSE [monitor |-> {[execMap |-> <<>>]}, err |-> FALSE]

\* the rest of Start in a daemon that cannot do without the Docker monitor:
\* a monitor that cannot be constructed or started fails the start
StartSetup_DockerRequired(p) ==
    \E logErr \in BOOLEAN, versionErr \in BOOLEAN, eventsErr \in BOOLEAN :
        LET d       == daemon[p]
            created == NewDockerMonitor(versionErr)
        IN  /\ d.pc = "setup"
            /\ IF logErr
               THEN /\ daemon' = [daemon EXCEPT ![p].pc = "exited",
                                                ![p].err = "failed to setup logging"]
                    /\ UNCHANGED pidFile
               ELSE IF created.err
               THEN /\ daemon' = [daemon EXCEPT ![p].pc = "exited",
                                                ![p].dockerErr = TRUE,
                                                ![p].err = "failed to create Docker monitor"]
                    /\ UNCHANGED pidFile
               ELSE IF eventsErr
               THEN /\ daemon' = [daemon EXCEPT ![p].pc = "exited",
                                                ![p].monitor = created.monitor,
                                                ![p].err = "failed to start monitoring"]
                    /\ pidFile' = {}
               ELSE /\ daemon' = [daemon EXCEPT ![p].pc = "running",
                                                ![p].monitor = created.monitor,
                                                ![p].isRunning = TRUE]
                    /\ UNCHANGED pidFile
            /\ UNCHANGED appVars

\* Start after writePIDFile: setupLogging, the HTTP server when enabled (its
\* Start returns nil: the listener is opened in a goroutine, where
\* ListenAndServe binds the port or logs that it cannot, bindErr), the Docker
\* monitor when enabled, isRunning.  listening is history: whether that
\* goroutine has a listener.
StartSetup(p) ==
    \E logErr \in BOOLEAN, versionErr \in BOOLEAN, eventsErr \in BOOLEAN, bindErr \in BOOLEAN :
        LET d          == daemon[p]
            httpServer == IF d.config.HTTPEnabled
                          THEN {NewHTTPServer(d.config.HTTPPort)} ELSE {}
            created    == IF d.config.DockerMonitor THEN NewDockerMonitor(versionErr)
                          ELSE [monitor |-> {}, err |-> FALSE]
            monitor    == IF created.err \/ eventsErr THEN {} ELSE created.monitor
        IN  /\ d.pc = "setup"
            /\ daemon' = IF logErr
                          THEN [daemon EXCEPT ![p].pc = "exited",
                                              ![p].err = "failed to setup logging"]
                          ELSE [daemon EXCEPT ![p].pc = "running",
                                              ![p].httpServer = httpServer,
                                              ![p].listening = httpServer # {} /\ ~bindErr,
                                              ![p].monitor = monitor,
                                              ![p].dockerErr = created.err,
                                              ![p].isRunning = TRUE]
            /\ UNCHANGED <<pidFile, appVars>>

\* cleanup: os.Remove of the PID file
cleanup == {}

\* SIGINT or SIGTERM to a daemon whose Start has returned: handleSignals
\* runs shutdown, which stops the monitor and the server, removes the PID
\* file and exits
Shutdown(p) ==
    /\ daemon[p].pc = "running"
    /\ pidFile' = cleanup
    /\ daemon' = [daemon EXCEPT ![p].pc = "exited", ![p].httpServer = {},
                                ![p].monitor = {}, ![p].isRunning = FALSE,
                                ![p].listening = FALSE]
    /\ UNCHANGED appVars

\* SIGKILL, or a signal before handleSignals is installed: the process is
\* gone and nothing is cleaned up
Kill(p) ==
    /\ daemon[p].pc \in {"check", "write", "setup", "running"}
    /\ daemon' = [daemon EXCEPT ![p].pc = "exited", ![p].killed = TRUE,
                                ![p].listening = FALSE]
    /\ UNCHANGED <<pidFile, appVars>>

(***************************************************************************)
(* shell integration (shell_integration.go)                                *)
(*                                                                         *)
(* The content of a config file is a sequence of tokens: one-character     *)
(* strings, and the two marker lines, each one token (neither marker       *)
(* occurs inside the other, nor inside the rest of a hook).  Reads and     *)
(* writes of the files succeed; the progress lines of Install and          *)
(* Uninstall are not kept.                                                 *)
(***************************************************************************)
MaxShellLen == 2

Shells == {"bash", "zsh", "fish"}

startMarker == "# CmdBell shell integration - START"

endMarker == "# CmdBell shell integration - END"

\* generateBashHook, generateZshHook, generateFishHook: a newline, the START
\* line, the shell's functions (one token, named after the shell), the END
\* line
hookContent(shell) == <<"\n", startMarker, "\n", shell, "\n", endMarker, "\n">>

removeExistingHook_KeepsFirstBlock(content) == content

\* removeExistingHook: cut the text from the first START marker to the first
\* END marker after it, with the newlines on either side of the cut
removeExistingHook(content) ==
    LET startIdx == Index(content, <<startMarker>>)
        endIn    == Index(From(content, startIdx), <<endMarker>>)
        endIdx   == endIn + startIdx + Len(<<endMarker>>)
        \* strings.TrimRight(content[:startIdx], "\n")
        kept     == {k \in 1..startIdx : content[k] # "\n"}
        before   == SubSeq(content, 1,
                           IF kept = {} THEN 0
                           ELSE CHOOSE k \in kept : \A j \in kept : j <= k)
        \* strings.TrimLeft(content[endIdx:], "\n")
        rest     == From(content, endIdx)
        text     == {k \in 1..Len(rest) : rest[k] # "\n"}
        after    == IF text = {} THEN <<>>
                    ELSE From(rest, (CHOOSE k \in text : \A j \in text : k <= j) - 1)
    IN  IF startIdx = -1 THEN content
        ELSE IF endIn = -1 THEN content
        ELSE IF before = <<>> THEN after
        ELSE IF after = <<>> THEN before
        ELSE before \o <<"\n">> \o after

\* addToShellConfig: the file after the hook is installed; a file that
\* cannot be read counts as empty
addToShellConfig(file, hook) ==
    LET existingContent == IF file = {} THEN <<>> ELSE CHOOSE c \in file : TRUE
        cleanContent    == removeExistingHook(existingContent)
    IN  {cleanContent \o <<"\n">> \o hook \o <<"\n">>}

\* removeFromShellConfig: the file after the hook is removed; a file that
\* does not exist stays absent
removeFromShellConfig(file) ==
    IF file = {} THEN {}
    ELSE {removeExistingHook(CHOOSE c \in file : TRUE)}

\* the config files a home directory may hold before CmdBell touches them:
\* none, or text with no hook block in it (a START line alone is no block)
ShellFiles ==
    {{}} \cup
    { {c} : c \in UNION {[1..n -> {"a", "\n", startMarker}] : n \in 0..MaxShellLen} }

\* `cmdbell --install`: installBash, installZsh and installFish in turn
Install ==
    /\ shellConfig' = [sh \in Shells |-> addToShellConfig(shellConfig[sh], hookContent(sh))]
    /\ last' = [op |-> "install", from |-> shellConfig]
    /\ UNCHANGED <<globalConfig, hs, pidFile, daemon, reader, stream, execMap, now, out, resp,
                   exit, nfacts, nreqs, nruns, phase, startAt, sent>>

\* `cmdbell --uninstall`: uninstallBash, uninstallZsh and uninstallFish in
\* turn; `origin` is history: the files before the Install that the step
\* follows, if it follows one
Uninstall ==
    /\ shellConfig' = [sh \in Shells |-> removeFromShellConfig(shellConfig[sh])]
    /\ last' = [op |-> "uninstall", from |-> shellConfig,
                origin |-> IF last.op = "install" THEN {last.from} ELSE {}]
    /\ UNCHANGED <<globalConfig, hs, pidFile, daemon, reader, stream, execMap, now, out, resp,
                   exit, nfacts, nreqs, nruns, phase, startAt, sent>>

(***************************************************************************)
(* specifications                                                          *)
(***************************************************************************)
InitOf(files, shells) ==
    /\ \E file \in files :
          /\ globalConfig = InitConfig(file)
          /\ hs = NewHTTPServer(NewDaemonConfig(file).HTTPPort)
    /\ pidFile = {}
    /\ shellConfig \in [Shells -> shells]
    /\ daemon = [p \in Procs |-> NewProcess]
    /\ reader = "running"
    /\ stream = NewStream
    /\ execMap = <<>>
    /\ now = 0
    /\ out = NoDispatch
    /\ resp = [status |-> 0, body |-> [error |-> ""]]
    /\ exit = 0
    /\ nfacts = 0
    /\ nreqs = 0
    /\ nruns = 0
    /\ last = [op |-> "none"]
    /\ phase = [id \in ExecIDs |-> "none"]
    /\ startAt = [id \in ExecIDs |-> ZeroTime]
    /\ sent = [id \in ExecIDs |-> 0]

\* a start in a home directory that holds no shell config file
InitWith(files) == InitOf(files, {{}})

Init == InitWith(ConfigFiles)

\* the Docker monitor alone
NextDocker == ReadLine

SpecDocker == Init /\ [][NextDocker]_vars

\* the HTTP ingress alone
NextHTTP == Notify

SpecHTTP == Init /\ [][NextHTTP]_vars

\* lines of the event stream read while the HTTP server is probed
MaxServiceFacts == 4

\* the Docker monitor and the health endpoint of one daemon
ServiceLine == nfacts < MaxServiceFacts /\ ReadLine

NextService == ServiceLine \/ Health

SpecService == Init /\ [][NextService]_vars

\* the Docker monitor and the HTTP server of one daemon
NextIngress == IngressLine \/ IngressNotify \/ Health

SpecIngress == Init /\ [][NextIngress]_vars

\* the Docker monitor on a stream that re-uses an execution id
NextReuse == ReuseLine

SpecReuse == Init /\ [][NextReuse]_vars

\* the notifier called on every kind of machine
NextNotifier == NotifyCommand \/ PlatformNotify

SpecNotifier == Init /\ [][NextNotifier]_vars

\* the daemon processes of one machine
NextDaemon ==
    \E p \in Procs :
        Launch(p) \/ StartCheck(p) \/ StartWrite(p) \/ StartSetup(p) \/ Shutdown(p) \/ Kill(p)

SpecDaemon == Init /\ [][NextDaemon]_vars

\* the Docker monitor on a stream with corrupt and foreign lines
NextCorrupt == CorruptLine

SpecCorrupt == Init /\ [][NextCorrupt]_vars

\* the Docker monitor with the pipe between the subprocess and the reader
NextPipe == Arrive \/ Begin \/ End

SpecPipe == Init /\ [][NextPipe]_vars

\* the Docker monitor from its start to its stop
NextStop == Arrive \/ Begin \/ End \/ Stop \/ Terminate \/ Exit

SpecStop == Init /\ [][NextStop]_vars /\ WF_vars(Terminate) /\ WF_vars(Exit)

\* the config files of a machine where Docker monitoring may be switched off
ModeConfigFiles == { {}, {[Yaml(<<>>, TRUE) EXCEPT !.DockerMonitor = FALSE]} }

\* the daemon process of the two modes
ModeProc == 41

\* `cmdbell --monitor`: startDockerMonitoring makes the monitor and starts it,
\* and the reader reads; no daemon is involved
StandaloneLine ==
    /\ \A p \in Procs : daemon[p].pc = "off"
    /\ nfacts < MaxIngressFacts
    /\ ReadFrom(IngressLines)

\* `cmdbell --daemon start` on a machine that runs no `cmdbell --monitor`,
\* with the config file the process-wide configuration came from
ModeLaunch ==
    /\ nfacts = 0
    /\ LaunchFrom(ModeProc, {file \in ModeConfigFiles : InitConfig(file) = globalConfig})

\* the reader of the monitor that the daemon's Start made
DaemonLine ==
    /\ daemon[ModeProc].pc = "running"
    /\ daemon[ModeProc].monitor # {}
    /\ nfacts < MaxIngressFacts
    /\ ReadFrom(IngressLines)

\* the Docker monitor in its two modes, standalone and inside the daemon
NextModes ==
    \/ StandaloneLine
    \/ ModeLaunch
    \/ StartCheck(ModeProc)
    \/ StartWrite(ModeProc)
    \/ StartSetup(ModeProc)
    \/ DaemonLine

SpecModes == InitWith(ModeConfigFiles) /\ [][NextModes]_vars

\* the local command runner alone
NextLocal == Run

SpecLocal == Init /\ [][NextLocal]_vars

\* the shell hook installer: Install and Uninstall over the config files
NextShell == Install \/ Uninstall

SpecShell == InitOf({{}}, ShellFiles) /\ [][NextShell]_vars

(***************************************************************************)
(* properties                                                              *)
(***************************************************************************)
\* the policy of the specification: a duration notifies when a loaded
\* configuration enables notifications and the duration reaches its minimum
PolicyPasses(d) == \E c \in globalConfig : d >= c.MinDurationTime /\ c.EnableNotify

\* the last step handled the fact `kind` of the execution id
IsFact(kind, id) ==
    /\ last.op = "line"
    /\ last.line.valid
    /\ KindOf(last.line.event) = kind
    /\ last.line.event.execID = id

\* C1: for every execution id, once create, start and die have been handled
\* in that order and the time between start and die passes the policy, exactly
\* one notification has been dispatched for the id.
C1_ExactlyOncePerTriple ==
    \A id \in ExecIDs :
        (phase[id] = "csd" /\ IsFact("die", id) /\ PolicyPasses(now - startAt[id]))
            => sent[id] = 1

\* C2: a die for an id that has a record dispatches a notification if and
\* only if the duration since the record's start time is at least the
\* configured minimum and notifications are enabled.
C2_DieNotifiesIffPolicy ==
    [][\A id \in ExecIDs :
          (nfacts' = nfacts + 1 /\ last'.line.valid /\ KindOf(last'.line.event) = "die"
             /\ last'.line.event.execID = id /\ id \in DOMAIN execMap)
          => ((Len(out'.alerts) = 1)
                <=> PolicyPasses(Since(now', execMap[id].StartTime)))]_vars

\* C2 witness: a die whose duration equals the configured minimum notified.
C2_Witness ==
    \E id \in ExecIDs :
        /\ phase[id] = "csd" /\ IsFact("die", id)
        /\ \E c \in globalConfig : now - startAt[id] = c.MinDurationTime
        /\ Len(out.alerts) = 1

\* C3: a local command that ran for d notifies if and only if d passes the
\* configured policy.
C3_LocalUsesPolicy ==
    last.op = "run" => ((Len(out.alerts) = 1) <=> PolicyPasses(last.duration))

\* the duration a request carries, when it parses
DurationOf(r) == ParseDuration(ValueOr(r.Body.duration, <<>>)).d

\* C4: a POST /notify that is accepted but whose duration does not pass the
\* policy dispatches no notification.
C4_NotifyUsesPolicy ==
    (last.op = "notify" /\ resp.status = StatusOK /\ ~PolicyPasses(DurationOf(last.r)))
        => out.alerts = <<>>

\* C5: a die for an id without a record dispatches nothing and leaves the
\* working set as it was.
C5_OrphanDieIsNoOp ==
    [][\A id \in ExecIDs :
          (nfacts' = nfacts + 1 /\ last'.line.valid /\ KindOf(last'.line.event) = "die"
             /\ last'.line.event.execID = id /\ id \notin DOMAIN execMap)
          => (out'.alerts = <<>> /\ execMap' = execMap)]_vars

\* C5 witness: a die was the first fact of an id while another id has a record.
C5_Witness ==
    \E id \in ExecIDs :
        /\ phase[id] = "d" /\ IsFact("die", id)
        /\ DOMAIN execMap # {}

\* C6: after a start with no create before it the id has no record, and the
\* die that follows dispatches no notification.
C6_OrphanStartThenDie ==
    \A id \in ExecIDs :
        phase[id] \in {"s", "sd"} => (id \notin DOMAIN execMap /\ sent[id] = 0)

\* C6 witness: a start without a create was followed by a die of the same id,
\* late enough for the policy to pass had a record been made.
C6_Witness ==
    \E id \in ExecIDs :
        phase[id] = "sd" /\ IsFact("die", id) /\ PolicyPasses(now - startAt[id])

\* C7: a create whose container lookup fails still inserts a record.
C7_RecordDespiteLookupFailure ==
    \A id \in ExecIDs :
        (IsFact("create", id) /\ last.inspect.err) => id \in DOMAIN execMap

\* C8: no record outlives its triple: an id whose facts so far are none, or
\* a create, a start and a die, has no record, and the working set never
\* holds more records than there are ids with a create and no die yet.
C8_WorkingSetDrains ==
    /\ \A id \in ExecIDs : phase[id] \in {"none", "csd"} => id \notin DOMAIN execMap
    /\ (\A id \in ExecIDs : phase[id] = "csd") => execMap = <<>>
    /\ DOMAIN execMap \subseteq ExecIDs
    /\ Cardinality(DOMAIN execMap)
          <= Cardinality({id \in ExecIDs : phase[id] \in {"c", "cs", "x"}})

\* C8 witness: every id has completed its triple and no other fact was read.
C8_Witness ==
    /\ \A id \in ExecIDs : phase[id] = "csd"
    /\ nfacts = 3 * Cardinality(ExecIDs)

\* what the message shows for the duration strings of the model's requests
ShownSeconds(durationString) ==
    CASE durationString = str20s    -> <<"2", "0", "s">>
      [] durationString = str1500ms -> <<"2", "s">>
      [] durationString = str14p5s  -> <<"1", "5", "s">>

strSpecMessage ==
    <<"C", "o", "m", "m", "a", "n", "d", " ", "'", "s", "l", "e", "e", "p", " ", "2", "0",
      "'", " ", "i", "n", " ", "'", "d", "e", "v", "b", "o", "x", "'", " ", "c", "o", "m",
      "p", "l", "e", "t", "e", "d", " ", "a", "f", "t", "e", "r", " ", "2", "0", "s">>

\* the last step served a POST /notify that names a command, a container and
\* a parseable duration and reports success
IsCompleteNotify ==
    /\ last.op = "notify"
    /\ last.r.Method = "POST"
    /\ last.r.Body.valid
    /\ last.r.Body.command = {strSleep20}
    /\ last.r.Body.container_name = {strDevbox}
    /\ last.r.Body.duration \in {{str20s}, {str1500ms}, {str14p5s}}
    /\ last.r.Body.success = {TRUE}

\* C9: a POST /notify with command, container_name, a parseable duration and
\* success=true is answered 200 "success" and dispatches one notification
\* whose message names the command, the container and the duration rounded
\* to whole seconds.
C9_CompleteNotifyDispatches ==
    IsCompleteNotify =>
        LET shown == ShownSeconds(ValueOr(last.r.Body.duration, <<>>))
            text  == <<"C", "o", "m", "m", "a", "n", "d", " ", "'">> \o strSleep20
                     \o <<"'", " ", "i", "n", " ", "'">> \o strDevbox
                     \o <<"'", " ", "c", "o", "m", "p", "l", "e", "t", "e", "d", " ",
                          "a", "f", "t", "e", "r", " ">> \o shown
        IN  /\ resp.status = 200
            /\ resp.body = [status |-> "success", message |-> "Notification sent"]
            /\ Len(out.alerts) = 1
            /\ out.alerts[1].message = text
            /\ out.lines[1] = [kind |-> "bell", title |-> out.alerts[1].title, message |-> text]
            /\ (last.r.Body.duration = {str20s} => text = strSpecMessage)

\* C9 witness: the payload of the specification was served and accepted.
C9_Witness == IsCompleteNotify /\ last.r.Body.duration = {str20s} /\ resp.status = 200

\* a request that /notify must reject with 400
IsBadNotify ==
    /\ last.op = "notify"
    /\ last.r.Method = "POST"
    /\ \/ ~last.r.Body.valid
       \/ last.r.Body.command \in {{}, {<<>>}}
       \/ last.r.Body.duration \in {{}, {<<>>}, {strSoon}}

\* C10: a POST /notify with a malformed body, no command, no duration or an
\* unparseable duration is answered 400, any other method 405, and none of
\* them dispatches a notification.
C10_RejectedNotify ==
    /\ IsBadNotify => (resp.status = 400 /\ out = NoDispatch)
    /\ (last.op = "notify" /\ last.r.Method # "POST") => (resp.status = 405 /\ out = NoDispatch)

\* C10 witness: a well-formed body with a command and an unparseable
\* duration was rejected.
C10_Witness ==
    /\ IsBadNotify
    /\ last.r.Body.valid
    /\ last.r.Body.command = {strSleep20}
    /\ last.r.Body.duration = {strSoon}
    /\ resp.status = 400

\* C11: an accepted POST /notify whose payload has no success key dispatches
\* a notification that reads "completed", not "failed".
C11_OmittedSuccessCompletes ==
    (last.op = "notify" /\ resp.status = StatusOK /\ last.r.Body.success = {})
        => /\ Len(out.alerts) = 1
           /\ Index(out.alerts[1].message, strCompleted) # -1
           /\ Index(out.alerts[1].message, strFailed) = -1

\* C12: whatever the correlator holds and whatever the Docker stream has
\* delivered, a GET /health is answered 200 "healthy" with the port the
\* server was configured with, a request of another method 405, and neither
\* dispatches a notification nor changes the working set.
C12_HealthIndependent ==
    [][last'.op = "health"
         => /\ execMap' = execMap
            /\ out'.alerts = <<>>
            /\ sent' = sent
            /\ IF last'.Method = "GET"
               THEN resp' = [status |-> 200,
                             body   |-> [status |-> "healthy", server |-> "cmdbell-http",
                                         port |-> hs.port]]
               ELSE resp'.status = 405]_vars

\* C12 witness: the server on the non-default port answered a GET /health
\* while the working set held a started record and a notification had been
\* dispatched.
C12_Witness ==
    /\ last.op = "health" /\ last.Method = "GET"
    /\ hs.port = AltPort
    /\ resp.status = 200 /\ resp.body.port = AltPort
    /\ \E id \in DOMAIN execMap : execMap[id].StartTime # ZeroTime
    /\ \E id \in ExecIDs : sent[id] = 1

\* the step read a well-formed fact `kind` of the execution id
ReadsFact(kind, id) ==
    /\ nfacts' = nfacts + 1
    /\ last'.line.valid
    /\ KindOf(last'.line.event) = kind
    /\ last'.line.event.execID = id

\* C13: a create for an id that has a record replaces the record with a
\* fresh one of the new container (no start time); a die for an id that has a
\* record removes it and dispatches at most one notification; a die for an id
\* without a record dispatches none; and only a create makes a record.
C13_ReuseLastWriteWins ==
    [][\A id \in ExecIDs :
          /\ (ReadsFact("create", id) /\ id \in DOMAIN execMap)
                => /\ id \in DOMAIN execMap'
                   /\ execMap'[id].ContainerID = last'.line.event.ID
                   /\ execMap'[id].StartTime = ZeroTime
                   /\ execMap'[id].Command
                        = From(last'.line.event.Action, Len(strExecCreate) + 1)
          /\ (ReadsFact("die", id) /\ id \in DOMAIN execMap)
                => (id \notin DOMAIN execMap' /\ Len(out'.alerts) <= 1)
          /\ (ReadsFact("die", id) /\ id \notin DOMAIN execMap)
                => out'.alerts = <<>>
          /\ (id \notin DOMAIN execMap /\ id \in DOMAIN execMap')
                => ReadsFact("create", id)]_vars

\* the last step called the notifier on some machine: a hook's report with
\* three arguments and parseable seconds, or an accepted report to /notify
NotifierCalled ==
    \/ last.op = "hook" /\ Len(last.args) = 3 /\ last.args[2] # strLong
    \/ last.op = "report"

\* C14: on every machine (native alert delivered, native tool failing,
\* unsupported operating system, no display) the notifier's first effect is
\* the console line, the native attempt comes after it, and the caller
\* carries on as if the alert had been delivered: the hook's process exits
\* with 0 and the report is answered 200.
C14_ConsoleFirstNeverFails ==
    NotifierCalled =>
        /\ Len(out.seq) >= 2
        /\ out.seq[1] = "console"
        /\ out.seq[2] = "native"
        /\ out.lines[1].kind = "bell"
        /\ Len(out.alerts) = 1
        /\ out.lines[1].message = out.alerts[1].message
        /\ last.op = "hook" => exit = 0
        /\ last.op = "report" => resp.status = 200

\* C14 witness: the notifier was called by a hook on a Linux machine without
\* a display, where the native attempt fails, and the failure was printed
\* after the console line.
C14_Witness ==
    /\ NotifierCalled
    /\ last.op = "hook"
    /\ last.env.goos = "linux" /\ ~last.env.display
    /\ Len(out.lines) = 2 /\ out.lines[2].kind = "native-failed"
    /\ exit = 0

C16_SecondStartRefused ==
    [][\A p \in Procs :
          (daemon[p].pc = "check" /\ daemon'[p].pc # "check" /\ ~daemon'[p].killed
             /\ GetPID \in Alive \ {p})
            => /\ daemon'[p].err = "already running"
               /\ daemon'[p].pc = "exited"
               /\ pidFile' = pidFile
               /\ daemon'[p].httpServer = {} /\ daemon'[p].monitor = {}
               /\ ~daemon'[p].isRunning /\ ~daemon'[p].wrote
               /\ \A q \in Procs \ {p} : daemon'[q] = daemon[q]]_vars

\* C16 witness: the second daemon was refused while the first is running and
\* the PID file still names the first.
C16_Witness ==
    \E p \in Procs, q \in Procs :
        /\ p # q
        /\ daemon[p].err = "already running"
        /\ daemon[q].pc = "running" /\ daemon[q].httpServer # {}
        /\ pidFile = {Itoa(q)}

\* C17: cmdbell exits with failure exactly when the command it ran failed,
\* whether the notification was sent, failed to be sent or was not attempted.
C17_ExitFollowsCommand ==
    last.op = "run" => ((exit # 0) <=> last.runErr)

\* C17 witness: the command succeeded, the notifier was called and its native
\* alert failed, and cmdbell exited with 0.
C17_Witness ==
    /\ last.op = "run" /\ ~last.runErr
    /\ Len(out.lines) = 2 /\ out.lines[2].kind = "native-failed"
    /\ exit = 0

\* C18: whatever events the handlers receive, among them a create without
\* an execID or with an execID shorter than 12 characters, the reader is
\* never stopped: handling completes and the stream goes on being read.
C18_ReaderNeverStops == reader = "running"

\* the step read a line that is skipped: one that is not JSON for an event,
\* or an event whose action is none of the three exec facts
SkipsLine ==
    /\ nfacts' = nfacts + 1
    /\ \/ ~last'.line.valid
       \/ KindOf(last'.line.event) = "other"

\* C19: a line that cannot be parsed, and an event whose action is not
\* exec_create:, exec_start: or exec_die, changes nothing that the handling
\* of later events reads (the working set, the configuration, the reader)
\* and dispatches no notification.
C19_SkippedLineChangesNothing ==
    [][SkipsLine
         => /\ execMap' = execMap
            /\ globalConfig' = globalConfig
            /\ reader' = reader
            /\ out' = NoDispatch
            /\ sent' = sent /\ phase' = phase /\ startAt' = startAt]_vars

\* C19 witness: an unparseable line was read between the start and the die
\* of an exec, and the started record is still in the working set.
C19_Witness ==
    /\ last.op = "line" /\ ~last.line.valid
    /\ phase["e1"] = "cs"
    /\ "e1" \in DOMAIN execMap
    /\ execMap["e1"].StartTime # ZeroTime

\* C20: a die for an id that has a record removes that record, and no
\* other, whether the policy gate passed and a notification was dispatched
\* or not.
C20_DieAlwaysRemoves ==
    [][\A id \in ExecIDs :
          (ReadsFact("die", id) /\ id \in DOMAIN execMap)
            => /\ DOMAIN execMap' = DOMAIN execMap \ {id}
               /\ \A other \in DOMAIN execMap' : execMap'[other] = execMap[other]]_vars

\* C20 witness: the die of a triple did not pass the gate, nothing was
\* dispatched, and the record is gone while the other id keeps its record.
C20_Witness ==
    \E id \in ExecIDs :
        /\ phase[id] = "csd" /\ IsFact("die", id)
        /\ Len(out.lines) = 1 /\ out.lines[1].kind = "done"
        /\ out.alerts = <<>>
        /\ id \notin DOMAIN execMap
        /\ DOMAIN execMap # {}


\* C21: for a die that completes a create, a start and a die of one id, the
\* duration the gate evaluates and the console shows is the time the die is
\* handled minus the time the start was written to the stream, also when the
\* reader was kept by an earlier notification between the arrival of the
\* start and its handling.
C21_DurationFromArrival ==
    [][\A id \in ExecIDs :
          (ReadsFact("die", id) /\ phase[id] = "cs" /\ id \in DOMAIN execMap)
          => LET d == now' - stream.startArrived[id]
             IN  /\ (Len(out'.alerts) = 1) <=> PolicyPasses(d)
                 /\ out'.lines[Len(out'.lines)].kind = "done"
                 /\ out'.lines[Len(out'.lines)].duration = DurationString(Round(d, Second))]_vars

\* C22: a die for an id whose only fact so far is a create is handled without
\* stopping the reader: the record's start time is zero, so the duration is
\* above the configured minimum, one notification is dispatched exactly when
\* notifications are enabled, and the id has no record afterwards.
C22_DieWithoutStart ==
    [][\A id \in ExecIDs :
          (ReadsFact("die", id) /\ phase[id] = "c")
          => /\ reader' = "running"
             /\ id \in DOMAIN execMap
                  => /\ execMap[id].StartTime = ZeroTime
                     /\ \A c \in globalConfig :
                           Since(now', execMap[id].StartTime) > c.MinDurationTime
             /\ (Len(out'.alerts) = 1) <=> (\E c \in globalConfig : c.EnableNotify)
             /\ id \notin DOMAIN execMap']_vars

\* C23: a start for an id whose record a die has removed is dropped: it makes
\* no record, dispatches nothing and leaves the working set as it was.
C23_LateStartDropped ==
    [][\A id \in ExecIDs :
          (ReadsFact("start", id) /\ phase[id] \in {"csd", "x"} /\ id \notin DOMAIN execMap)
          => /\ execMap' = execMap
             /\ out' = NoDispatch
             /\ sent'[id] = sent[id]]_vars

\* C23 witness: a die of the id dispatched its notification and removed the
\* record, the start that came after it found none, and the record of the other
\* id, already started, is in the working set.
C23_Witness ==
    \E id \in ExecIDs :
        /\ IsFact("start", id) /\ phase[id] = "x"
        /\ sent[id] = 1
        /\ id \notin DOMAIN execMap
        /\ \E other \in DOMAIN execMap : execMap[other].StartTime # ZeroTime

\* C24: between its creation and its removal a record's start time is set
\* once: a start for an id whose record already has a start time leaves that
\* start time as it is.
C24_StartSetOnce ==
    [][\A id \in ExecIDs :
          (ReadsFact("start", id) /\ id \in DOMAIN execMap
             /\ execMap[id].StartTime # ZeroTime)
          => /\ id \in DOMAIN execMap'
             /\ execMap'[id].StartTime = execMap[id].StartTime]_vars

\* the step served a request to /notify or to /health
ServesRequest == nreqs' = nreqs + 1 \/ (last'.op = "health" /\ nfacts' = nfacts)

\* a request that /notify accepts, by the request alone
IsAcceptable(r) ==
    /\ r.Method = "POST"
    /\ r.Body.valid
    /\ r.Body.command \notin {{}, {<<>>}}
    /\ r.Body.duration \in {{str20s}, {str1500ms}, {str14p5s}}

\* C25: serving an HTTP request, an accepted or a rejected POST /notify or a
\* GET /health, leaves the working set and its history as they were, and what
\* it answers and dispatches is determined by the request alone, whatever
\* records the working set holds; the working set changes only in steps that
\* read a line of the Docker event stream.
C25_HttpLeavesWorkingSet ==
    [][/\ ServesRequest
            => /\ execMap' = execMap
               /\ <<phase, startAt, sent, nfacts, reader>>' = <<phase, startAt, sent, nfacts, reader>>
       /\ nreqs' = nreqs + 1
            => /\ (resp'.status = StatusOK) <=> IsAcceptable(last'.r)
               /\ (Len(out'.alerts) = 1) <=> IsAcceptable(last'.r)
               /\ IsAcceptable(last'.r)
                    => out'.alerts[1].message =
                         strCommandQ \o ValueOr(last'.r.Body.command, <<>>) \o strQInQ
                         \o ValueOr(last'.r.Body.container_name, strUnknownContainer) \o strQSp
                         \o (IF ValueOr(last'.r.Body.success, FALSE)
                             THEN strCompleted ELSE strFailed)
                         \o strAfter \o ShownSeconds(ValueOr(last'.r.Body.duration, <<>>))
       /\ execMap' # execMap => nfacts' = nfacts + 1]_vars

\* C25 witness: a report of 1.5s was accepted and dispatched while the
\* working set held the started record of an execution that a die would not
\* yet notify for.
C25_Witness ==
    /\ last.op = "notify" /\ resp.status = StatusOK
    /\ last.r.Body.duration = {str1500ms}
    /\ Len(out.alerts) = 1
    /\ "e1" \in DOMAIN execMap
    /\ execMap["e1"].StartTime = now

\* C26: the handlers of create, start and die that work on one working set
\* exclude one another: in every reachable state at most one call of
\* handleEvent is in progress.
C26_HandlersExclusive == Len(stream.inflight) <= 1

\* C26 witness: the handler of a die is kept by the notification it dispatched
\* while two more lines wait in the pipe.
C26_Witness ==
    /\ Len(stream.inflight) = 1
    /\ KindOf(stream.inflight[1].line.event) = "die"
    /\ stream.inflight[1].until > now
    /\ Len(stream.pipe) = 2

\* C27: the lines of the stream are handled in the order they were written
\* and one at a time: the k-th call of handleEvent is for the k-th line written
\* and begins only when the call before it, the dispatch of its notification
\* included, has returned.
C27_InOrderOneAtATime ==
    [][nfacts' = nfacts + 1
         => /\ stream.inflight = <<>>
            /\ Len(stream'.inflight) = 1
            /\ stream'.inflight[1].k = nfacts'
            /\ stream'.inflight[1].line = last'.line
            /\ \A e \in {stream'.pipe[i] : i \in 1..Len(stream'.pipe)} : e.k > nfacts'
            /\ now' >= now]_vars

\* C27 witness: a line written while the handler of the die before it was
\* kept by its notification is being handled, after that handler returned.
C27_Witness ==
    /\ Len(stream.inflight) = 1
    /\ stream.inflight[1].k = nfacts
    /\ IsFact("start", stream.inflight[1].line.event.execID)
    /\ stream.startArrived[stream.inflight[1].line.event.execID] < now
    /\ \E id \in ExecIDs : sent[id] = 1

MessageOf(command, containerName, success, shown) ==
    strCommandQ \o command \o strQInQ \o containerName \o strQSp
    \o (IF success THEN strCompleted ELSE strFailed) \o strAfter \o shown

\* C29: however accepted POST /notify requests and Docker die facts
\* interleave, no completion is lost or duplicated: a step that handles a
\* completion, the die of a created and started execution or an accepted
\* report, dispatches one notification when the completion's duration passes
\* the policy and none when it does not, the notification names the
\* completion's own command, container and duration, and no other step
\* dispatches any.
C29_EveryCompletionOnce ==
    [][/\ (nreqs' = nreqs + 1 /\ IsAcceptable(last'.r))
            => /\ (Len(out'.alerts) = 1) <=> PolicyPasses(DurationOf(last'.r))
               /\ out'.alerts # <<>>
                    => out'.alerts[1].message =
                         MessageOf(ValueOr(last'.r.Body.command, <<>>),
                                   ValueOr(last'.r.Body.container_name, strUnknownContainer),
                                   ValueOr(last'.r.Body.success, FALSE),
                                   ShownSeconds(ValueOr(last'.r.Body.duration, <<>>)))
       /\ \A id \in ExecIDs :
             (ReadsFact("die", id) /\ phase[id] = "cs")
             => /\ (Len(out'.alerts) = 1) <=> PolicyPasses(now' - startAt[id])
                /\ out'.alerts # <<>>
                     => out'.alerts[1].message =
                          MessageOf(strSleep20, strDevbox, TRUE,
                                    DurationString(Round(now' - startAt[id], Second)))
       /\ (out'.alerts # <<>> /\ out' # out)
            => \/ nreqs' = nreqs + 1 /\ IsAcceptable(last'.r)
               \/ \E id \in ExecIDs : ReadsFact("die", id)]_vars

\* the configuration switches Docker monitoring off
MonitoringDisabled == \E c \in globalConfig : ~c.DockerMonitor

\* C30: with Docker monitoring switched off in the configuration no die
\* dispatches a notification, under `cmdbell --monitor` and in the daemon
\* alike.
C30_DisabledMonitorIsSilent ==
    [][\A id \in ExecIDs :
          (ReadsFact("die", id) /\ MonitoringDisabled) => out'.alerts = <<>>]_vars

\* C31: a die for an id that has a record writes its console line, naming
\* the record's container, the rounded duration and the exit status, also
\* when the duration is below the minimum, notifications are disabled or no
\* configuration is loaded.
C31_DieAlwaysPrints ==
    [][\A id \in ExecIDs :
          (ReadsFact("die", id) /\ id \in DOMAIN execMap)
          => /\ out'.lines # <<>>
             /\ out'.lines[Len(out'.lines)] =
                  [kind     |-> "done",
                   name     |-> execMap[id].ContainerName,
                   duration |-> DurationString(Round(Since(now', execMap[id].StartTime), Second)),
                   exit     |-> last'.line.event.exitCode]]_vars

\* C31 witness: with notifications disabled the die of a triple that ran for
\* 30 s dispatched nothing and wrote its console line.
C31_Witness ==
    \E id \in ExecIDs :
        /\ phase[id] = "csd" /\ IsFact("die", id)
        /\ \E c \in globalConfig : ~c.EnableNotify
        /\ now - startAt[id] = 30000
        /\ out.alerts = <<>>
        /\ Len(out.lines) = 1 /\ out.lines[1].kind = "done"

\* C32: the notification of a die reports the command as completed, with
\* the icon of success, if and only if the die's exit status is the string
\* "0"; for any other status, a missing one among them, it reports the
\* command as failed.
C32_SuccessIffExitZero ==
    [][\A id \in ExecIDs :
          (ReadsFact("die", id) /\ id \in DOMAIN execMap /\ out'.alerts # <<>>)
          => LET zero  == last'.line.event.exitCode = <<"0">>
                 shown == DurationString(Round(Since(now', execMap[id].StartTime), Second))
             IN  /\ out'.alerts[1].icon = IF zero THEN "ok" ELSE "fail"
                 /\ out'.alerts[1].message =
                      MessageOf(execMap[id].Command, execMap[id].ContainerName, zero, shown)]_vars

\* C32 witness: a die that carries no exit status was notified as failed.
C32_Witness ==
    /\ IsFact("die", "e1") /\ phase["e1"] = "csd"
    /\ last.line.event.exitCode = <<>>
    /\ Len(out.alerts) = 1 /\ out.alerts[1].icon = "fail"

\* C33: a notifier call runs at most one native alert command: once the
\* first platform command has been run, whether it succeeded or failed, no
\* other one is run for the same notification.
C33_OneNativeAttempt ==
    (last.op \in {"hook", "report"} /\ out.alerts # <<>>)
        => Len(sendNativeNotification(last.env).ran) <= 1

\* C34: the ids of the working set are the ids with a handled create and no
\* handled die since: the working set starts empty, an id enters it only in a
\* step that handles a create of that id, and after a step that handles a die
\* of an id the id is not in it.
C34_RecordsAreLiveCreates ==
    /\ execMap = <<>>
    /\ [][\A id \in ExecIDs :
             /\ (id \in DOMAIN execMap' /\ id \notin DOMAIN execMap) => ReadsFact("create", id)
             /\ ReadsFact("die", id) => id \notin DOMAIN execMap']_vars

\* C34 witness: an id whose die was notified and removed its record has been
\* created again and is in the working set.
C34_Witness ==
    \E id \in ExecIDs :
        /\ IsFact("create", id) /\ phase[id] = "x"
        /\ sent[id] = 1
        /\ id \in DOMAIN execMap
        /\ execMap[id].StartTime = ZeroTime

\* C35: at most one daemon holds the PID file at any time, also when two
\* `cmdbell --daemon start` run at once: never have both concluded that they
\* started.
C35_OneDaemonStarts == Cardinality({p \in Procs : daemon[p].pc = "running"}) <= 1

\* C36: a process whose Daemon.Start returned an error, whichever step
\* failed, has left no PID file that names it.
C36_FailedStartLeavesNoPidFile ==
    \A p \in Procs :
        (daemon[p].pc = "exited" /\ daemon[p].err # "") => pidFile # {Itoa(p)}

\* C37: a daemon whose Start returned success with the HTTP ingress enabled
\* has a listener accepting requests: when the port cannot be bound Start
\* fails and the PID file is removed.
C37_RunningMeansListening ==
    \A p \in Procs :
        (daemon[p].pc = "running" /\ daemon[p].config.HTTPEnabled) => daemon[p].listening

\* the START/END hook blocks of a content, counted from the left: a START
\* marker and the first END marker after it make one block
RECURSIVE Blocks(_)
Blocks(c) ==
    LET s == Index(c, <<startMarker>>)
        e == Index(From(c, s), <<endMarker>>)
    IN  IF s = -1 THEN 0
        ELSE IF e = -1 THEN 0
        ELSE 1 + Blocks(From(c, s + e + 1))

\* the hook blocks of a config file; an absent file holds none
BlocksIn(file) == IF file = {} THEN 0 ELSE Blocks(CHOOSE c \in file : TRUE)

\* C38: starting from config files without a hook block, after any sequence
\* of Install and Uninstall every file holds at most one START/END block:
\* exactly one after an Install, none after an Uninstall.
C38_AtMostOneHookBlock ==
    \A sh \in Shells :
        /\ BlocksIn(shellConfig[sh]) <= 1
        /\ last.op = "install" => BlocksIn(shellConfig[sh]) = 1
        /\ last.op = "uninstall" => BlocksIn(shellConfig[sh]) = 0

\* an Install over a file that already held the block of an earlier Install
C38_Witness ==
    /\ last.op = "install"
    /\ \E sh \in Shells : BlocksIn(last.from[sh]) = 1 /\ BlocksIn(shellConfig[sh]) = 1

\* C39: Install followed by Uninstall is a round trip: a config file whose
\* content held no hook block before the Install has exactly that content
\* after the Uninstall, trailing newlines included.
C39_InstallUninstallRoundTrip ==
    (last.op = "uninstall" /\ last.origin # {}) =>
        \A origin \in last.origin : \A sh \in Shells :
            (origin[sh] # {} /\ BlocksIn(origin[sh]) = 0) => shellConfig[sh] = origin[sh]
=============================================================================
